---- MODULE Spec2Model ----
(***************************************************************************)
(* Model of the upload engine of frontend/My-meta/src/services/api.ts:     *)
(* ApiService.uploadFile and ApiService.uploadFileChunked, run by the      *)
(* single-threaded JavaScript event loop.  One action is one task of the   *)
(* event loop: the arrival of a response together with every microtask     *)
(* continuation it triggers (the rest of request(), the rest of            *)
(* uploadChunk, Promise.all settling, the next iteration of the batch      *)
(* loop and the requests that iteration sends).                            *)
(***************************************************************************)
EXTENDS Integers, Sequences, FiniteSets, TLC

\* ----- program constants ------------------------------------------------
CHUNKED_UPLOAD_THRESHOLD == 50 * 1024 * 1024
CHUNK_SIZE == 5 * 1024 * 1024
maxConcurrent_4 == 3 + 1
maxConcurrent == 3

\* ----- bounds of the model ----------------------------------------------
\* largest number of chunks of a payload
MaxChunks == 11
\* largest number of chunks the server reports as missing from the start
\* of the payload
MaxRemaining == 4
\* number of entries the server may append to a contiguous stored prefix
MaxExtra == 1
\* number of failed responses injected in one run
MaxFailures == 3
\* number of status-clearing timeouts that selections refused by the panel
\* leave pending
MaxTimers == 1

\* ----- inputs -------------------------------------------------------------
MinChunks == (CHUNKED_UPLOAD_THRESHOLD \div CHUNK_SIZE) + 1

\* payload sizes that take the chunked path: the smallest one (a last chunk
\* of one byte) and the sizes with a full last chunk
ChunkedSizes ==
    {CHUNKED_UPLOAD_THRESHOLD + 1}
        \cup {k * CHUNK_SIZE : k \in MinChunks..MaxChunks}

\* payload sizes that take the direct path: empty, one byte, and exactly
\* the threshold
DirectSizes == {0, 1, CHUNKED_UPLOAD_THRESHOLD}

FileSizes == DirectSizes \cup ChunkedSizes

\* payload sizes around the chunk boundaries: one and two bytes into the
\* last chunk, one byte short of a full last chunk, and a full last chunk
FreshSizes ==
    UNION {{(k - 1) * CHUNK_SIZE + 1, (k - 1) * CHUNK_SIZE + 2,
            k * CHUNK_SIZE - 1, k * CHUNK_SIZE} : k \in MinChunks..MaxChunks}

UploadIds == {"u1", "u2"}
\* the bodies the server may answer CompleteUpload with
Results == {[saved_filename |-> "r1"], [saved_filename |-> "r2"]}
FailKinds == {"401", "500", "net"}

\* what the server may answer the direct request with: a body that parses
\* to a result or one that does not, under one of these statuses
Unparsable == [unparsable |-> TRUE]
Bodies == Results \cup {Unparsable}
OkStatuses == {200, 201}
XhrStatuses == {200, 201, 401, 500}
XhrFailKinds == {"net", "abort"}

Prefix(k) == [j \in 1..k |-> j - 1]

\* entries appended after the prefix: the last valid index (a chunk stored
\* out of order, or a duplicate) and an index out of range
ExtraIdx(total) == {total - 1, total}

Extras(total) ==
    UNION {[1..n -> ExtraIdx(total)] : n \in 0..MaxExtra}

\* the uploaded_chunks lists the server may answer InitUpload with: the
\* chunks of a resumed session, followed by the extra entries
InitLists(total) ==
    {Prefix(k) \o e : k \in (total - MaxRemaining)..total, e \in Extras(total)}

\* the lists of a server that holds the first k chunks of the file and
\* reports exactly those
HonestLists(total) == {Prefix(k) : k \in (total - MaxRemaining)..total}

\* the lists of a server that reports the first k chunks and nothing else
PrefixLists == {Prefix(k) : k \in 0..MaxChunks}

AllInitLists == UNION {InitLists(total) : total \in MinChunks..MaxChunks}

\* ----- pure functions ---------------------------------------------------
Min(a, b) == IF a < b THEN a ELSE b

\* Math.ceil(file.size / CHUNK_SIZE)
TotalChunks_floor(size) == size \div CHUNK_SIZE
TotalChunks(size) == (size + CHUNK_SIZE - 1) \div CHUNK_SIZE

\* Math.round((uploadedCount / totalChunks) * 100): round half up.  For the
\* chunk counts of the model no quotient lies on a tie, so the floating
\* point evaluation agrees with the exact one.
Progress_floor(count, total) == (100 * count) \div total
Progress(count, total) == (200 * count + total) \div (2 * total)

\* uploadedChunks.includes(i)
Includes_first(list, x) == Len(list) > 0 /\ list[1] = x
Includes(list, x) == \E j \in 1..Len(list) : list[j] = x

ListSet(list) == {list[j] : j \in 1..Len(list)}

\* `initResponse.uploaded_chunks || []`
UploadedChunksOf_none(resp) == <<>>
UploadedChunksOf(resp) == resp.uploaded_chunks

RECURSIVE Ascending(_)
\* the indices of a set as a list in ascending order
Ascending(S) ==
    IF S = {} THEN <<>>
    ELSE LET m == CHOOSE x \in S : \A y \in S : y <= x
         IN  Append(Ascending(S \ {m}), m)

RECURSIVE ChunksFrom(_, _, _)
\* the loop `for (i = 0; i < totalChunks; i++) if (!includes(i)) push(i)`
ChunksFrom(i, total, stored) ==
    IF i >= total THEN <<>>
    ELSE IF Includes(stored, i) THEN ChunksFrom(i + 1, total, stored)
    ELSE <<i>> \o ChunksFrom(i + 1, total, stored)

ChunksToUpload_all(total, stored) == ChunksFrom(0, total, <<>>)
ChunksToUpload(total, stored) == ChunksFrom(0, total, stored)

\* chunksToUpload.slice(i, i + maxConcurrent), as a set of chunk indices
Batch_rest(list, i) ==
    {list[j] : j \in (i + 1)..Len(list)}
Batch(list, i) ==
    {list[j] : j \in (i + 1)..Min(i + maxConcurrent, Len(list))}

\* the Error thrown by request(); origin stands for the identity of the
\* Error object (which response created it)
MakeError_generic(kind, origin) ==
    [status |-> 0, requiresAuth |-> FALSE, origin |-> origin]
MakeError(kind, origin) ==
    [status |-> IF kind = "401" THEN 401 ELSE IF kind = "500" THEN 500 ELSE 0,
     requiresAuth |-> (kind = "401"),
     origin |-> origin]

\* ----- state ------------------------------------------------------------
VARIABLES
    token,          \* localStorage holds an access_token
    pc,             \* where uploadFileChunked is suspended
    callState,      \* state of the promise returned to the caller
    callValue,      \* the value or the error it settled with
    fileSize,       \* file.size
    hasSink,        \* onProgress was supplied
    totalChunks,
    uploadId,
    uploadedChunks,
    chunksToUpload,
    uploadedCount,
    loopI,          \* the variable i of the batch loop
    worker,         \* where each uploadChunk(chunkIndex) call is suspended
    initReqs,       \* InitUpload requests sent
    chunkReqs,      \* UploadChunk requests sent, per chunk index
    completeReqs,   \* CompleteUpload requests sent
    chunkAnswered,  \* number of UploadChunk responses received, per index
    initResp,       \* the response to InitUpload, once received
    completeResp,   \* the response to CompleteUpload, once received
    progressLog,    \* the values passed to onProgress, in order
    failures,       \* number of failed responses of the chunked protocol
    directReqs,     \* requests sent to the direct upload endpoint
    directResp,     \* the outcome of the direct request, once known
    xhrLoaded,      \* e.loaded of the last progress event, -1 before any
    serverStored,   \* the chunk indices the server holds for this file
    callNo,         \* number of uploadFile calls made for the file
    prevKnown,      \* the stored indices known when the file was resubmitted
    stale,          \* uploadChunk calls of the previous call still running
    peer,           \* the locals of a second call running at the same time
    uploadStatus,   \* uploadStatus.value of the chat panel
    timers,         \* pending status-clearing timeouts, per delay in seconds
    fileInput,      \* value of the file input: "" when reset
    handler         \* position of handleFileSelect: idle, awaiting, done

vars == <<token, pc, callState, callValue, fileSize, hasSink, totalChunks,
          uploadId, uploadedChunks, chunksToUpload, uploadedCount, loopI,
          worker, initReqs, chunkReqs, completeReqs, chunkAnswered,
          initResp, completeResp, progressLog, failures, directReqs,
          directResp, xhrLoaded, serverStored, callNo, prevKnown, stale,
          peer, uploadStatus, timers, fileInput, handler>>

fileVars == <<fileSize, hasSink, totalChunks>>
sessionVars == <<uploadId, uploadedChunks, chunksToUpload>>
callVars == <<callState, callValue>>
respVars == <<initResp, completeResp>>
directVars == <<directReqs, directResp, xhrLoaded>>
panelVars == <<uploadStatus, timers, fileInput, handler>>
historyVars == <<callNo, prevKnown, stale, peer, panelVars>>

Idx == 0..(MaxChunks - 1)

\* no response received yet
NoResp == [st |-> "none"]

\* the value of a promise that has not settled
NoValue == [undefined |-> TRUE]

\* uploadStatus.value = null
NoStatus == [type |-> "null"]

\* the delays, in seconds, of the timeouts that clear the status
Delays == {3, 5}

\* the locals of a call that has not been made
PeerIdle ==
    [pc |-> "idle", callState |-> "none", totalChunks |-> 0,
     uploadId |-> "undefined", uploadedChunks |-> <<>>,
     chunksToUpload |-> <<>>, uploadedCount |-> 0, loopI |-> 0,
     worker |-> [c \in Idx |-> "idle"], sent |-> [c \in Idx |-> 0],
     completeSent |-> 0, progressLog |-> <<>>]

Init ==
    /\ token = TRUE
    /\ pc = "idle"
    /\ callState = "none"
    /\ callValue = NoValue
    /\ fileSize = 0
    /\ hasSink = FALSE
    /\ totalChunks = 0
    /\ uploadId = "undefined"
    /\ uploadedChunks = <<>>
    /\ chunksToUpload = <<>>
    /\ uploadedCount = 0
    /\ loopI = 0
    /\ worker = [c \in Idx |-> "idle"]
    /\ initReqs = <<>>
    /\ chunkReqs = [c \in Idx |-> <<>>]
    /\ completeReqs = <<>>
    /\ chunkAnswered = [c \in Idx |-> 0]
    /\ initResp = NoResp
    /\ completeResp = NoResp
    /\ progressLog = <<>>
    /\ failures = 0
    /\ directReqs = <<>>
    /\ directResp = NoResp
    /\ xhrLoaded = -1
    /\ serverStored = {}
    /\ callNo = 0
    /\ prevKnown = {}
    /\ stale = [c \in Idx |-> "none"]
    /\ peer = PeerIdle
    /\ uploadStatus = NoStatus
    /\ timers = [d \in Delays |-> 0]
    /\ fileInput = ""
    /\ handler = "idle"

\* ----- requests ---------------------------------------------------------
\* request(): the Authorization header is attached iff a token is stored
\* at the moment the request is made
Request(op, form, tok) == [op |-> op, form |-> form, auth |-> tok]

InitForm(size, total) == [file_size |-> size, total_chunks |-> total]

\* the FormData built at the top of uploadChunk
ChunkForm_stale(id, chunkIndex, size) ==
    [upload_id |-> "undefined",
     chunk_index |-> chunkIndex,
     start |-> chunkIndex * CHUNK_SIZE,
     end |-> Min(chunkIndex * CHUNK_SIZE + CHUNK_SIZE, size)]
ChunkForm(id, chunkIndex, size) ==
    [upload_id |-> id,
     chunk_index |-> chunkIndex,
     start |-> chunkIndex * CHUNK_SIZE,
     end |-> Min(chunkIndex * CHUNK_SIZE + CHUNK_SIZE, size)]

CompleteForm(id) == [upload_id |-> id]

\* the FormData of the direct upload: the whole file
DirectForm(size) == [file_size |-> size]

\* the 401 branch of request() removes the stored token
TokenAfter_keep(kind) == token
TokenAfter(kind) == IF kind = "401" THEN FALSE ELSE token

\* onProgress(progress), when a sink was supplied
Report_never(value) == progressLog' = progressLog
Report(value) ==
    progressLog' = IF hasSink THEN Append(progressLog, value) ELSE progressLog

\* a successful and a failed response
OkResp(body) == [st |-> "ok", body |-> body]
FailResp(kind) == [st |-> "fail", kind |-> kind]

\* the catch of uploadFileChunked rethrows: the call rejects with err
Swallow(err) == [state |-> "resolved", value |-> NoValue]
Rethrow(err) == [state |-> "rejected", value |-> err]

\* an uploadChunk call is awaiting the response to its request (the first
\* attempt or the retry)
InFlight_any(w) == w # "idle"
InFlight(w) == w \in {"try", "retry"}

\* the catch of uploadChunk is entered from the try block only, so the
\* retry is made after the first attempt and not after the retry
RetryAlways(w) == w \in {"try", "retry"}
MayRetry(w) == w = "try"

\* the promise of Promise.all over the batch settles once: a rejection of
\* an uploadChunk call reaches the caller only while it is pending
StillPending_always(p) == TRUE
StillPending(p) == p = "batch"

\* `uploadedCount++` after the first attempt (try block) and after the
\* retry (catch block)
CountAfterAck_twice(w, count) == IF w = "try" THEN count + 1 ELSE count + 2
CountAfterAck(w, count) == IF w = "try" THEN count + 1 ELSE count + 1

\* `i += maxConcurrent`
NextBatchStart_overlap(i) == i + maxConcurrent - 1
NextBatchStart(i) == i + maxConcurrent

\* Promise.all over the batch is fulfilled when every uploadChunk call of
\* the batch is
BatchDone_any(list, i, w) == \E d \in Batch(list, i) : w[d] = "ok"
BatchDone(list, i, w) == \A d \in Batch(list, i) : w[d] = "ok"

\* the test of the batch loop, `i < chunksToUpload.length`
LoopContinues_le(list, i) == i <= Len(list)
LoopContinues(list, i) == i < Len(list)

\* the batch loop from its test `i < chunksToUpload.length` up to its next
\* await: either the uploadChunk calls of one batch, each of which runs up
\* to its first request, or the CompleteUpload request
RunLoop(list, i, w, id) ==
    IF LoopContinues(list, i)
    THEN /\ pc' = "batch"
         /\ loopI' = i
         /\ worker' = [c \in Idx |-> IF c \in Batch(list, i) THEN "try" ELSE w[c]]
         /\ chunkReqs' = [c \in Idx |->
                IF c \in Batch(list, i)
                THEN Append(chunkReqs[c],
                            Request("chunk", ChunkForm(id, c, fileSize), token))
                ELSE chunkReqs[c]]
         /\ UNCHANGED completeReqs
    ELSE /\ pc' = "complete"
         /\ loopI' = i
         /\ worker' = w
         /\ completeReqs' =
                Append(completeReqs, Request("complete", CompleteForm(id), token))
         /\ UNCHANGED chunkReqs

\* ----- actions ----------------------------------------------------------
\* `file.size > this.CHUNKED_UPLOAD_THRESHOLD`
IsChunked_ge(size) == size >= CHUNKED_UPLOAD_THRESHOLD
IsChunked(size) == size > CHUNKED_UPLOAD_THRESHOLD

\* uploadFile(file, onProgress), up to its first suspension: for a large
\* file uploadFileChunked up to the await of the InitUpload request,
\* otherwise the direct request, by XMLHttpRequest when a sink was supplied
\* and by request() when not
UploadFileCall(size, sink) ==
    /\ pc = "idle"
    /\ fileSize' = size
    /\ hasSink' = sink
    /\ callState' = "pending"
    /\ callNo' = callNo + 1
    /\ IF IsChunked(size)
       THEN /\ totalChunks' = TotalChunks(size)
            /\ initReqs' = Append(initReqs,
                   Request("init", InitForm(size, TotalChunks(size)), token))
            /\ pc' = "init"
            /\ UNCHANGED directReqs
       ELSE /\ directReqs' = Append(directReqs,
                   Request("direct", DirectForm(size), token))
            /\ pc' = IF sink THEN "xhr" ELSE "fetch"
            /\ UNCHANGED <<totalChunks, initReqs>>
    /\ UNCHANGED <<directResp, xhrLoaded, serverStored, prevKnown, stale, peer>>
    /\ UNCHANGED <<token, callValue, sessionVars, uploadedCount, loopI, worker,
                   chunkReqs, completeReqs, chunkAnswered, respVars,
                   progressLog, failures>>

\* uploadFile called by a caller other than the chat panel
UploadFile(size, sink) ==
    /\ UploadFileCall(size, sink)
    /\ UNCHANGED panelVars

\* InitUpload answered with {upload_id, uploaded_chunks}
InitOk(id, list) ==
    /\ pc = "init"
    /\ serverStored' = serverStored \cup (ListSet(list) \cap (0..(totalChunks - 1)))
    /\ uploadId' = id
    /\ LET known == UploadedChunksOf([upload_id |-> id, uploaded_chunks |-> list])
       IN  /\ uploadedChunks' = known
           /\ chunksToUpload' = ChunksToUpload(totalChunks, known)
           /\ uploadedCount' = Len(known)
           /\ RunLoop(ChunksToUpload(totalChunks, known), 0, worker, id)
    /\ initResp' = OkResp([upload_id |-> id, uploaded_chunks |-> list])
    /\ UNCHANGED <<directVars, historyVars>>
    /\ UNCHANGED <<token, callVars, fileVars, initReqs, chunkAnswered,
                   completeResp, progressLog, failures>>

\* InitUpload failed: request() throws, the catch rethrows
InitFail(kind) ==
    /\ pc = "init"
    /\ failures < MaxFailures
    /\ failures' = failures + 1
    /\ token' = TokenAfter(kind)
    /\ initResp' = FailResp(kind)
    /\ pc' = "settled"
    /\ callState' = Rethrow(MakeError(kind, <<"init", 0, 1>>)).state
    /\ callValue' = Rethrow(MakeError(kind, <<"init", 0, 1>>)).value
    /\ UNCHANGED <<directVars, historyVars>>
    /\ UNCHANGED <<serverStored>>
    /\ UNCHANGED <<fileVars, sessionVars, uploadedCount, loopI, worker, initReqs,
                   chunkReqs, completeReqs, chunkAnswered, completeResp,
                   progressLog>>

\* the outstanding UploadChunk request of chunk c is acknowledged
ChunkOk(c) ==
    /\ InFlight(worker[c])
    /\ chunkAnswered' = [chunkAnswered EXCEPT ![c] = @ + 1]
    /\ serverStored' = serverStored \cup {c}
    /\ uploadedCount' = CountAfterAck(worker[c], uploadedCount)
    /\ Report(Progress(CountAfterAck(worker[c], uploadedCount), totalChunks))
    /\ LET w == [worker EXCEPT ![c] = "ok"]
       IN  IF pc = "batch" /\ BatchDone(chunksToUpload, loopI, w)
           THEN RunLoop(chunksToUpload, NextBatchStart(loopI), w, uploadId)
           ELSE /\ worker' = w
                /\ UNCHANGED <<pc, loopI, chunkReqs, completeReqs>>
    /\ UNCHANGED <<directVars, historyVars>>
    /\ UNCHANGED <<token, callVars, fileVars, sessionVars, initReqs, respVars,
                   failures>>

\* the outstanding UploadChunk request of chunk c fails
ChunkFailure(c, kind) ==
    /\ InFlight(worker[c])
    /\ failures' = failures + 1
    /\ chunkAnswered' = [chunkAnswered EXCEPT ![c] = @ + 1]
    /\ token' = TokenAfter(kind)
    /\ IF MayRetry(worker[c])
       THEN \* catch: retry once with the same FormData
            /\ worker' = [worker EXCEPT ![c] = "retry"]
            /\ chunkReqs' = [chunkReqs EXCEPT ![c] =
                   Append(@, Request("chunk", chunkReqs[c][1].form, TokenAfter(kind)))]
            /\ UNCHANGED <<pc, callVars>>
       ELSE \* the retry throws out of uploadChunk; Promise.all rejects if
            \* it is still pending, and the catch rethrows
            /\ worker' = [worker EXCEPT ![c] = "rejected"]
            /\ UNCHANGED chunkReqs
            /\ IF StillPending(pc)
               THEN /\ pc' = "settled"
                    /\ callState' = Rethrow(MakeError(kind, <<"chunk", c, 2>>)).state
                    /\ callValue' = Rethrow(MakeError(kind, <<"chunk", c, 2>>)).value
               ELSE UNCHANGED <<pc, callVars>>
    /\ UNCHANGED <<directVars, historyVars>>
    /\ UNCHANGED <<serverStored>>
    /\ UNCHANGED <<fileVars, sessionVars, uploadedCount, loopI, initReqs,
                   completeReqs, respVars, progressLog>>

\* the failure of a chunk request, within the failures injected in one run
ChunkFail(c, kind) ==
    /\ failures < MaxFailures
    /\ ChunkFailure(c, kind)

\* CompleteUpload answered with the result
CompleteOk(res) ==
    /\ pc = "complete"
    /\ Report(100)
    /\ pc' = "settled"
    /\ callState' = "resolved"
    /\ callValue' = res
    /\ completeResp' = OkResp(res)
    /\ UNCHANGED <<directVars, historyVars>>
    /\ UNCHANGED <<serverStored>>
    /\ UNCHANGED <<token, fileVars, sessionVars, uploadedCount, loopI, worker,
                   initReqs, chunkReqs, completeReqs, chunkAnswered, initResp,
                   failures>>

\* CompleteUpload failed
CompleteFail(kind) ==
    /\ pc = "complete"
    /\ failures < MaxFailures
    /\ failures' = failures + 1
    /\ token' = TokenAfter(kind)
    /\ completeResp' = FailResp(kind)
    /\ pc' = "settled"
    /\ callState' = Rethrow(MakeError(kind, <<"complete", 0, 1>>)).state
    /\ callValue' = Rethrow(MakeError(kind, <<"complete", 0, 1>>)).value
    /\ UNCHANGED <<directVars, historyVars>>
    /\ UNCHANGED <<serverStored>>
    /\ UNCHANGED <<fileVars, sessionVars, uploadedCount, loopI, worker, initReqs,
                   chunkReqs, completeReqs, chunkAnswered, initResp,
                   progressLog>>

\* the Error built by the load handler of the XMLHttpRequest for a status
\* other than 201
XhrError(status, origin) ==
    [status |-> status, requiresAuth |-> (status = 401), origin |-> origin]

\* new Error(message) without a status: an unparsable body, the error and
\* the abort event
PlainError(origin) == [status |-> 0, requiresAuth |-> FALSE, origin |-> origin]

\* reject(error) of the promise of the direct upload
Resolve_instead(err) == [state |-> "resolved", value |-> NoValue]
Reject(err) == [state |-> "rejected", value |-> err]

\* e.total of the progress events: the multipart body, which is longer than
\* the file
XhrTotal(size) == size + 1

\* the values of e.loaded the model lets the browser report
XhrLoadedSamples(size) ==
    {0, XhrTotal(size) \div 3, XhrTotal(size) \div 2, XhrTotal(size)}

AllXhrSamples == UNION {XhrLoadedSamples(size) : size \in DirectSizes}

\* Math.round((e.loaded / e.total) * 100).  The value is the largest v with
\* (2v - 1) * total <= 200 * loaded; with total = 200 * q + m that is
\* loaded >= (2v - 1) * q + ceil((2v - 1) * m / 200), which is how it is
\* computed here, the products with byte counts not fitting 32 bits.
XhrPercent(loaded, total) ==
    LET q == total \div 200
        m == total % 200
        Reached(v) == loaded >= (2 * v - 1) * q + ((2 * v - 1) * m + 199) \div 200
    IN  CHOOSE v \in 0..100 :
            /\ v > 0 => Reached(v)
            /\ v < 100 => ~Reached(v + 1)

\* a progress event of xhr.upload with lengthComputable
XhrProgress(loaded) ==
    /\ pc = "xhr"
    /\ loaded \in XhrLoadedSamples(fileSize)
    /\ loaded > xhrLoaded
    /\ xhrLoaded' = loaded
    /\ Report(XhrPercent(loaded, XhrTotal(fileSize)))
    /\ UNCHANGED <<directReqs, directResp, historyVars, serverStored>>
    /\ UNCHANGED <<token, pc, callVars, fileVars, sessionVars, uploadedCount,
                   loopI, worker, initReqs, chunkReqs, completeReqs,
                   chunkAnswered, respVars, failures>>

\* the load event of the XMLHttpRequest
XhrLoad(status, body) ==
    /\ pc = "xhr"
    /\ pc' = "settled"
    /\ directResp' = [st |-> "load", status |-> status, body |-> body]
    /\ token' = IF status = 401 THEN FALSE ELSE token
    /\ LET outcome ==
               IF status = 201
               THEN IF body \in Results
                    THEN [state |-> "resolved", value |-> body]
                    ELSE Reject(PlainError(<<"direct", 0, 1>>))
               ELSE Reject(XhrError(status, <<"direct", 0, 1>>))
       IN  /\ callState' = outcome.state
           /\ callValue' = outcome.value
    /\ UNCHANGED <<directReqs, xhrLoaded, historyVars, serverStored>>
    /\ UNCHANGED <<fileVars, sessionVars, uploadedCount, loopI, worker, initReqs,
                   chunkReqs, completeReqs, chunkAnswered, respVars,
                   progressLog, failures>>

\* the error or the abort event of the XMLHttpRequest
XhrFail(kind) ==
    /\ pc = "xhr"
    /\ pc' = "settled"
    /\ directResp' = FailResp(kind)
    /\ callState' = Reject(PlainError(<<"direct", 0, 1>>)).state
    /\ callValue' = Reject(PlainError(<<"direct", 0, 1>>)).value
    /\ UNCHANGED <<directReqs, xhrLoaded, historyVars, serverStored>>
    /\ UNCHANGED <<token, fileVars, sessionVars, uploadedCount, loopI, worker,
                   initReqs, chunkReqs, completeReqs, chunkAnswered, respVars,
                   progressLog, failures>>

\* the direct request made through request() is answered with an ok status;
\* an unparsable body makes request() throw
FetchOk(status, body) ==
    /\ pc = "fetch"
    /\ pc' = "settled"
    /\ directResp' = [st |-> "load", status |-> status, body |-> body]
    /\ LET outcome ==
               IF body \in Results
               THEN [state |-> "resolved", value |-> body]
               ELSE Reject(PlainError(<<"direct", 0, 1>>))
       IN  /\ callState' = outcome.state
           /\ callValue' = outcome.value
    /\ UNCHANGED <<directReqs, xhrLoaded, historyVars, serverStored>>
    /\ UNCHANGED <<token, fileVars, sessionVars, uploadedCount, loopI, worker,
                   initReqs, chunkReqs, completeReqs, chunkAnswered, respVars,
                   progressLog, failures>>

\* the direct request made through request() fails
FetchFail(kind) ==
    /\ pc = "fetch"
    /\ pc' = "settled"
    /\ directResp' = FailResp(kind)
    /\ token' = TokenAfter(kind)
    /\ callState' = Reject(MakeError(kind, <<"direct", 0, 1>>)).state
    /\ callValue' = Reject(MakeError(kind, <<"direct", 0, 1>>)).value
    /\ UNCHANGED <<directReqs, xhrLoaded, historyVars, serverStored>>
    /\ UNCHANGED <<fileVars, sessionVars, uploadedCount, loopI, worker, initReqs,
                   chunkReqs, completeReqs, chunkAnswered, respVars,
                   progressLog, failures>>

\* InitUpload answered by a server that may report any of the lists
InitAnswered(id, list) ==
    /\ pc = "init"
    /\ list \in InitLists(totalChunks)
    /\ InitOk(id, list)

Next ==
    \/ \E size \in FileSizes, sink \in BOOLEAN : UploadFile(size, sink)
    \/ \E id \in UploadIds, list \in AllInitLists : InitAnswered(id, list)
    \/ \E kind \in FailKinds : InitFail(kind)
    \/ \E c \in Idx : ChunkOk(c)
    \/ \E c \in Idx, kind \in FailKinds : ChunkFail(c, kind)
    \/ \E res \in Results : CompleteOk(res)
    \/ \E kind \in FailKinds : CompleteFail(kind)
    \/ \E loaded \in AllXhrSamples : XhrProgress(loaded)
    \/ \E status \in XhrStatuses, body \in Bodies : XhrLoad(status, body)
    \/ \E kind \in XhrFailKinds : XhrFail(kind)
    \/ \E status \in OkStatuses, body \in Bodies : FetchOk(status, body)
    \/ \E kind \in FailKinds : FetchFail(kind)

Spec == Init /\ [][Next]_vars

\* ----- two calls running at the same time ---------------------------------
\* The first call is the one of the actions above; the second runs the same
\* code on locals of its own, kept in the record peer.  Both read and write
\* the stored token (localStorage).

\* the file of the second call: the smallest one that is sent in chunks
PeerSize == CHUNKED_UPLOAD_THRESHOLD + 1

\* the lists InitUpload answers the second call with: one or two chunks
\* left to upload
PeerLists(total) == {Prefix(total - 1), Prefix(total - 2)}

\* `let uploadedCount` is declared inside uploadFileChunked: a call reads
\* and writes its own counter
OwnCount_shared(own, other) == other
OwnCount(own, other) == own

\* what the actions of the second call leave alone
firstCallVars ==
    <<pc, callState, callValue, fileSize, hasSink, totalChunks, uploadId,
      uploadedChunks, chunksToUpload, uploadedCount, loopI, worker, initReqs,
      chunkReqs, completeReqs, chunkAnswered, initResp, completeResp,
      progressLog, directReqs, directResp, xhrLoaded, serverStored, callNo,
      prevKnown, stale, panelVars>>

\* the batch loop of the second call, as RunLoop
PeerLoop(p, list, i, w) ==
    IF LoopContinues(list, i)
    THEN [p EXCEPT !.pc = "batch",
                   !.loopI = i,
                   !.worker = [c \in Idx |->
                                  IF c \in Batch(list, i) THEN "try" ELSE w[c]],
                   !.sent = [c \in Idx |->
                                IF c \in Batch(list, i) THEN @[c] + 1 ELSE @[c]]]
    ELSE [p EXCEPT !.pc = "complete",
                   !.loopI = i,
                   !.worker = w,
                   !.completeSent = @ + 1]

\* the second call is made, with a progress sink
PeerUpload ==
    /\ peer.pc = "idle"
    /\ IsChunked(PeerSize)
    /\ peer' = [peer EXCEPT !.pc = "init",
                            !.callState = "pending",
                            !.totalChunks = TotalChunks(PeerSize)]
    /\ UNCHANGED <<token, failures, firstCallVars>>

\* InitUpload of the second call answered
PeerInitOk(id, list) ==
    /\ peer.pc = "init"
    /\ list \in PeerLists(peer.totalChunks)
    /\ LET known == UploadedChunksOf([upload_id |-> id, uploaded_chunks |-> list])
           todo == ChunksToUpload(peer.totalChunks, known)
       IN  peer' = PeerLoop([peer EXCEPT !.uploadId = id,
                                         !.uploadedChunks = known,
                                         !.chunksToUpload = todo,
                                         !.uploadedCount = Len(known)],
                            todo, 0, peer.worker)
    /\ UNCHANGED <<token, failures, firstCallVars>>

\* InitUpload of the second call failed
PeerInitFail(kind) ==
    /\ peer.pc = "init"
    /\ failures < MaxFailures
    /\ failures' = failures + 1
    /\ token' = TokenAfter(kind)
    /\ peer' = [peer EXCEPT !.pc = "settled",
                            !.callState = Rethrow(MakeError(kind, <<"init", 0, 1>>)).state]
    /\ UNCHANGED firstCallVars

\* an UploadChunk request of the second call is acknowledged
PeerChunkOk(c) ==
    /\ InFlight(peer.worker[c])
    /\ LET count == CountAfterAck(peer.worker[c],
                                  OwnCount(peer.uploadedCount, uploadedCount))
           w == [peer.worker EXCEPT ![c] = "ok"]
           p == [peer EXCEPT !.uploadedCount = count,
                             !.progressLog =
                                 Append(@, Progress(count, peer.totalChunks)),
                             !.worker = w]
       IN  peer' = IF peer.pc = "batch"
                      /\ BatchDone(peer.chunksToUpload, peer.loopI, w)
                   THEN PeerLoop(p, peer.chunksToUpload,
                                 NextBatchStart(peer.loopI), w)
                   ELSE p
    /\ UNCHANGED <<token, failures, firstCallVars>>

\* an UploadChunk request of the second call fails
PeerChunkFail(c, kind) ==
    /\ InFlight(peer.worker[c])
    /\ failures < MaxFailures
    /\ failures' = failures + 1
    /\ token' = TokenAfter(kind)
    /\ peer' =
           IF MayRetry(peer.worker[c])
           THEN [peer EXCEPT !.worker[c] = "retry", !.sent[c] = @ + 1]
           ELSE IF peer.pc = "batch"
           THEN [peer EXCEPT !.worker[c] = "rejected",
                             !.pc = "settled",
                             !.callState =
                                 Rethrow(MakeError(kind, <<"chunk", c, 2>>)).state]
           ELSE [peer EXCEPT !.worker[c] = "rejected"]
    /\ UNCHANGED firstCallVars

\* CompleteUpload of the second call answered
PeerCompleteOk ==
    /\ peer.pc = "complete"
    /\ peer' = [peer EXCEPT !.pc = "settled",
                            !.callState = "resolved",
                            !.progressLog = Append(@, 100)]
    /\ UNCHANGED <<token, failures, firstCallVars>>

\* CompleteUpload of the second call failed
PeerCompleteFail(kind) ==
    /\ peer.pc = "complete"
    /\ failures < MaxFailures
    /\ failures' = failures + 1
    /\ token' = TokenAfter(kind)
    /\ peer' = [peer EXCEPT !.pc = "settled",
                            !.callState =
                                Rethrow(MakeError(kind, <<"complete", 0, 1>>)).state]
    /\ UNCHANGED firstCallVars

\* the first call: the same file, with a sink
PairUpload ==
    /\ UploadFile(PeerSize, TRUE)

\* InitUpload of the first call answered: MaxRemaining chunks are left to
\* upload, which makes more than one batch
PairInitOk(id) ==
    /\ pc = "init"
    /\ InitOk(id, Prefix(totalChunks - MaxRemaining))

NextPair ==
    \/ PairUpload
    \/ \E id \in {"u1"} : PairInitOk(id)
    \/ \E kind \in FailKinds : InitFail(kind)
    \/ \E c \in Idx : ChunkOk(c)
    \/ \E c \in Idx, kind \in FailKinds : ChunkFail(c, kind)
    \/ \E res \in Results : CompleteOk(res)
    \/ \E kind \in FailKinds : CompleteFail(kind)
    \/ PeerUpload
    \/ \E id \in {"u2"}, list \in PrefixLists : PeerInitOk(id, list)
    \/ \E kind \in FailKinds : PeerInitFail(kind)
    \/ \E c \in Idx : PeerChunkOk(c)
    \/ \E c \in Idx, kind \in FailKinds : PeerChunkFail(c, kind)
    \/ PeerCompleteOk
    \/ \E kind \in FailKinds : PeerCompleteFail(kind)

SpecPair == Init /\ [][NextPair]_vars

\* ----- every request is eventually answered ------------------------------
\* a response to an outstanding request of the call arrives
Answer ==
    \/ \E id \in UploadIds, list \in PrefixLists : InitAnswered(id, list)
    \/ \E kind \in FailKinds : InitFail(kind)
    \/ \E c \in Idx : ChunkOk(c)
    \/ \E c \in Idx, kind \in FailKinds : ChunkFail(c, kind)
    \/ \E res \in Results : CompleteOk(res)
    \/ \E kind \in FailKinds : CompleteFail(kind)
    \/ \E status \in XhrStatuses, body \in Bodies : XhrLoad(status, body)
    \/ \E kind \in XhrFailKinds : XhrFail(kind)
    \/ \E status \in OkStatuses, body \in Bodies : FetchOk(status, body)
    \/ \E kind \in FailKinds : FetchFail(kind)

NextFair ==
    \/ \E size \in FileSizes, sink \in BOOLEAN : UploadFile(size, sink)
    \/ \E loaded \in AllXhrSamples : XhrProgress(loaded)
    \/ Answer

SpecFair == Init /\ [][NextFair]_vars /\ WF_vars(Answer)

\* ----- the last batches of an upload, any request of which may fail --------
\* the lists that leave at most MaxRemaining chunks of the smallest chunked
\* payload to upload
BatchLists == {Prefix(k) : k \in (MinChunks - MaxRemaining)..MinChunks}

\* uploadFile of the smallest payload that takes the chunked path
UploadSmallest(sink) ==
    /\ pc = "idle"
    /\ UploadFile(CHUNKED_UPLOAD_THRESHOLD + 1, sink)

\* InitUpload answered with a stored prefix
InitBatch(list) ==
    /\ pc = "init"
    /\ InitOk("u1", list)

NextBatch ==
    \/ \E sink \in BOOLEAN : UploadSmallest(sink)
    \/ \E list \in BatchLists : InitBatch(list)
    \/ \E c \in Idx : ChunkOk(c)
    \/ \E c \in Idx, kind \in FailKinds : ChunkFailure(c, kind)
    \/ \E res \in Results : CompleteOk(res)
    \/ \E kind \in FailKinds : CompleteFail(kind)

SpecBatch == Init /\ [][NextBatch]_vars

\* ----- the chat panel: handleFileSelect ------------------------------------
allowedExtensions == {".pdf", ".docx", ".pptx", ".txt", ".md", ".markdown"}
maxSize == 200 * 1024 * 1024

\* the names of the files selected, each as the sequence of the parts its
\* dots separate (file.name.split('.')): an allowed extension in lower and
\* in upper case, an extension that is not allowed, and a name without a dot
FileNames ==
    {<<"report", "pdf">>, <<"REPORT", "PDF">>, <<"report", "exe">>, <<"pdf">>}

\* the sizes of the files selected: the direct path, the chunked path, and
\* more than the panel accepts
PanelSizes ==
    {0, CHUNKED_UPLOAD_THRESHOLD, CHUNKED_UPLOAD_THRESHOLD + 1, maxSize + 1}

\* String.prototype.toLowerCase, on the parts of the names above
ToLowerCase(str) ==
    CASE str = "PDF" -> "pdf"
      [] str = "REPORT" -> "report"
      [] OTHER -> str

\* '.' + file.name.split('.').pop()?.toLowerCase()
FileExt(name) == "." \o ToLowerCase(name[Len(name)])

\* `const useChunkedUpload = file.size > 50 * 1024 * 1024`
UseChunkedUpload(size) == size > 50 * 1024 * 1024

\* the progress of a status object that has none
NoProgress == -1

\* the status objects assigned to uploadStatus.value; seen is the number of
\* values the progress callback had been given when the object was assigned
ErrorStatus(message) ==
    [type |-> "error", message |-> message, progress |-> NoProgress,
     seen |-> Len(progressLog)]
UploadingStatus(size) ==
    [type |-> "uploading", message |-> UseChunkedUpload(size), progress |-> 0,
     seen |-> Len(progressLog)]
SuccessStatus(result) ==
    [type |-> "success", message |-> result, progress |-> NoProgress,
     seen |-> Len(progressLog)]

\* the progress callback given to uploadFile writes the value it is given
\* to uploadStatus.value.progress whenever uploadStatus.value is not null
StatusProgress ==
    IF uploadStatus.type = "null" THEN NoProgress
    ELSE IF Len(progressLog) > uploadStatus.seen
         THEN progressLog[Len(progressLog)]
         ELSE uploadStatus.progress

\* the state of the upload engine and of its other callers
engineVars ==
    <<token, pc, callVars, fileVars, sessionVars, uploadedCount, loopI, worker,
      initReqs, chunkReqs, completeReqs, chunkAnswered, respVars, progressLog,
      failures, directVars, serverStored, callNo, prevKnown, stale, peer>>

\* the continuation of handleFileSelect after `await apiService.uploadFile`
\* runs in the task in which the call settles, before any other handler
Quiet == ~(handler = "awaiting" /\ callState \in {"resolved", "rejected"})

\* number of timeouts pending
PendingTimers == timers[3] + timers[5]

\* the two early returns of handleFileSelect: an error status, cleared
\* after 3 seconds
Refuse(message) ==
    /\ PendingTimers < MaxTimers
    /\ uploadStatus' = ErrorStatus(message)
    /\ timers' = [timers EXCEPT ![3] = @ + 1]
    /\ UNCHANGED <<handler, engineVars>>

\* handleFileSelect up to the await of uploadFile; the browser has put the
\* file into the input before the change event.  One upload is started in
\* a run (pc = "idle").
HandleFileSelect(name, size) ==
    /\ Quiet
    /\ fileInput' = "file"
    /\ IF FileExt(name) \notin allowedExtensions
       THEN Refuse("type")
       ELSE IF size > maxSize
            THEN Refuse("size")
            ELSE /\ uploadStatus' = UploadingStatus(size)
                 /\ handler' = "awaiting"
                 /\ UNCHANGED timers
                 /\ UploadFileCall(size, TRUE)

\* the status assigned when the awaited call has settled: in the try block
\* after the await when it resolved, in the catch block when it rejected
StatusAfter_success(state, value) == SuccessStatus(value)
StatusAfter(state, value) ==
    IF state = "resolved" THEN SuccessStatus(value) ELSE ErrorStatus(value)

\* handleFileSelect after the await: the status, its 5 second timeout, and
\* the reset of the file input in the finally block
UploadSettled ==
    /\ handler = "awaiting"
    /\ callState \in {"resolved", "rejected"}
    /\ uploadStatus' = StatusAfter(callState, callValue)
    /\ timers' = [timers EXCEPT ![5] = @ + 1]
    /\ fileInput' = ""
    /\ handler' = "done"
    /\ UNCHANGED engineVars

\* `setTimeout(() => { uploadStatus.value = null; }, ...)` fires
TimerFires(d) ==
    /\ Quiet
    /\ timers[d] > 0
    /\ timers' = [timers EXCEPT ![d] = @ - 1]
    /\ uploadStatus' = NoStatus
    /\ UNCHANGED <<fileInput, handler, engineVars>>

\* the answers to the chunk requests of the call the panel made
PanelChunkOk(c) ==
    /\ Quiet
    /\ ChunkOk(c)

PanelChunkFail(c, kind) ==
    /\ Quiet
    /\ ChunkFail(c, kind)

NextPanel ==
    \/ \E name \in FileNames, size \in PanelSizes : HandleFileSelect(name, size)
    \/ UploadSettled
    \/ \E d \in Delays : TimerFires(d)
    \/ \E list \in BatchLists : InitBatch(list)
    \/ \E kind \in FailKinds : InitFail(kind)
    \/ \E c \in Idx : PanelChunkOk(c)
    \/ \E c \in Idx, kind \in FailKinds : PanelChunkFail(c, kind)
    \/ \E res \in Results : CompleteOk(res)
    \/ \E kind \in FailKinds : CompleteFail(kind)
    \/ \E loaded \in AllXhrSamples : XhrProgress(loaded)
    \/ \E status \in XhrStatuses, body \in Bodies : XhrLoad(status, body)
    \/ \E kind \in XhrFailKinds : XhrFail(kind)

SpecPanel == Init /\ [][NextPanel]_vars

\* ----- a chunked upload none of whose requests fails ------------------------
NextLive ==
    \/ \E size \in ChunkedSizes, sink \in BOOLEAN : UploadFile(size, sink)
    \/ \E id \in UploadIds, list \in AllInitLists : InitAnswered(id, list)
    \/ \E c \in Idx : ChunkOk(c)
    \/ \E res \in Results : CompleteOk(res)

\* a successful response to an outstanding request of the call arrives
AnswerOk ==
    \/ \E id \in UploadIds, list \in AllInitLists : InitAnswered(id, list)
    \/ \E c \in Idx : ChunkOk(c)
    \/ \E res \in Results : CompleteOk(res)

SpecLive == Init /\ [][NextLive]_vars /\ WF_vars(AnswerOk)

\* ----- a fresh upload that meets no failure -------------------------------
\* uploadFile of a payload whose size is around a chunk boundary
UploadFresh(size, sink) ==
    /\ size \in FreshSizes
    /\ UploadFile(size, sink)

\* InitUpload answered for a file the server has no chunk of
InitFresh(id) ==
    /\ pc = "init"
    /\ InitOk(id, <<>>)

NextFresh ==
    \/ \E size \in FreshSizes, sink \in BOOLEAN : UploadFresh(size, sink)
    \/ \E id \in UploadIds : InitFresh(id)
    \/ \E c \in Idx : ChunkOk(c)
    \/ \E res \in Results : CompleteOk(res)

SpecFresh == Init /\ [][NextFresh]_vars

\* ----- derived state ----------------------------------------------------
\* UploadChunk requests of index c sent and not yet answered
Outstanding(c) == Len(chunkReqs[c]) - chunkAnswered[c]

RECURSIVE SumUpTo(_, _)
SumUpTo(f, n) == IF n < 0 THEN 0 ELSE f[n] + SumUpTo(f, n - 1)

OutstandingChunks == SumUpTo([c \in Idx |-> Outstanding(c)], MaxChunks - 1)

\* UploadChunk responses of index c that were failures
FailedAttempts(c) == chunkAnswered[c] - (IF worker[c] = "ok" THEN 1 ELSE 0)

\* the indices the server reported as stored
AlreadyStored == {uploadedChunks[j] : j \in 1..Len(uploadedChunks)}

\* chunk indices of the payload
Chunks == 0..(totalChunks - 1)

\* a chunked upload call has been made
ChunkedCall == callState # "none" /\ fileSize > CHUNKED_UPLOAD_THRESHOLD

\* ----- claims -----------------------------------------------------------

\* C1: at most 3 UploadChunk requests of the call are outstanding (sent and
\* not yet answered) in every reachable state, first attempts and retries
\* counted alike.
C1_ConcurrencyBound == OutstandingChunks <= 3

\* C1 witness: three requests are outstanding, one of them a retry.
C1_Witness ==
    /\ OutstandingChunks = 3
    /\ \E c \in Idx : worker[c] = "retry" /\ Outstanding(c) = 1

\* C2: the progress sink receives 100 only after CompleteUpload has
\* succeeded; when CompleteUpload failed or was not sent, 100 is never
\* reported.
C2_HundredOnlyAfterComplete ==
    (ChunkedCall /\ \E j \in 1..Len(progressLog) : progressLog[j] = 100)
        => completeResp.st = "ok"

\* C3: the sequence of values passed to the progress sink is non-decreasing.
C3_ProgressMonotone ==
    ChunkedCall =>
    \A j \in 1..(Len(progressLog) - 1) : progressLog[j] <= progressLog[j + 1]

\* C4: every chunk index is sent in at most 2 UploadChunk requests; a chunk
\* whose first attempt failed has been retried with the same upload id,
\* index and byte range; when the retry failed too the call has rejected.
C4_RetryOnce ==
    \A c \in Idx :
        /\ Len(chunkReqs[c]) <= 2
        /\ FailedAttempts(c) >= 1 =>
               /\ Len(chunkReqs[c]) = 2
               /\ chunkReqs[c][2].form = chunkReqs[c][1].form
               /\ chunkReqs[c][2].form.chunk_index = c
        /\ FailedAttempts(c) = 2 =>
               /\ worker[c] = "rejected"
               /\ callState = "rejected"

\* C4 witness: a chunk has failed twice, after two requests.
C4_Witness ==
    \E c \in Idx : FailedAttempts(c) = 2 /\ Len(chunkReqs[c]) = 2

\* C5: every index an UploadChunk request is sent for lies in
\* 0..totalChunks-1 and is not in uploadedChunks; on a run without failures
\* that resolved, exactly the remaining indices were sent, each once.
C5_OnlyMissingChunksSent ==
    /\ \A c \in Idx :
           Len(chunkReqs[c]) > 0 =>
               /\ c \in Chunks
               /\ c \notin AlreadyStored
               /\ \A j \in 1..Len(chunkReqs[c]) :
                      chunkReqs[c][j].form.chunk_index = c
    /\ (callState = "resolved" /\ failures = 0) =>
           \A c \in Chunks :
               Len(chunkReqs[c]) = IF c \in AlreadyStored THEN 0 ELSE 1

\* C5 witness: a failure-free run resolved, with chunks both skipped and sent.
C5_Witness ==
    /\ callState = "resolved"
    /\ failures = 0
    /\ \E c \in Chunks : Len(chunkReqs[c]) = 1
    /\ \E c \in Chunks : c \in AlreadyStored /\ Len(chunkReqs[c]) = 0

\* C6: once an UploadChunk request for index c has been acknowledged, no
\* further UploadChunk request for c is sent.
C6_ConfirmedNeverResent ==
    [][\A c \in Idx : worker[c] = "ok" => chunkReqs'[c] = chunkReqs[c]]_vars

\* C6 witness: a chunk is confirmed while a sibling of its batch failed
\* twice and another sibling is being retried.
C6_Witness ==
    \E c, d, e \in Batch(chunksToUpload, loopI) :
        worker[c] = "ok" /\ worker[d] = "rejected" /\ worker[e] = "retry"

\* C7: exactly one InitUpload request is sent, no UploadChunk (or
\* CompleteUpload) request is sent before the InitUpload response, and every
\* UploadChunk and CompleteUpload request carries the returned upload id.
C7_InitFirst ==
    /\ ChunkedCall => Len(initReqs) = 1
    /\ initResp.st # "ok" =>
           /\ \A c \in Idx : chunkReqs[c] = <<>>
           /\ completeReqs = <<>>
    /\ initResp.st = "ok" =>
           /\ \A c \in Idx : \A j \in 1..Len(chunkReqs[c]) :
                  chunkReqs[c][j].form.upload_id = initResp.body.upload_id
           /\ \A j \in 1..Len(completeReqs) :
                  completeReqs[j].form.upload_id = initResp.body.upload_id

\* C7 witness: chunk requests (one a retry) and the CompleteUpload request
\* have been sent.
C7_Witness ==
    /\ Len(completeReqs) = 1
    /\ \E c \in Idx : Len(chunkReqs[c]) = 2

\* C8: CompleteUpload is sent at most once, and only when no chunk request
\* is outstanding and every index in 0..totalChunks-1 is in uploadedChunks
\* or was acknowledged in this call.
C8_CompleteAfterAllChunks ==
    /\ Len(completeReqs) <= 1
    /\ Len(completeReqs) = 1 =>
           /\ OutstandingChunks = 0
           /\ \A c \in Idx : Len(chunkReqs[c]) > 0 => worker[c] = "ok"
           /\ \A c \in Chunks : c \in AlreadyStored \/ worker[c] = "ok"

\* C8 witness: CompleteUpload was sent after two batches, one chunk having
\* needed its retry.
C8_Witness ==
    /\ Len(completeReqs) = 1
    /\ loopI > maxConcurrent
    /\ \E c \in Idx : Len(chunkReqs[c]) = 2

\* C9: the call resolves only if InitUpload succeeded, every dispatched
\* chunk was acknowledged and CompleteUpload succeeded, and then with the
\* CompleteUpload response; a failed InitUpload, a chunk that failed twice
\* or a failed CompleteUpload make the call reject with no result.
C9_ResolveOnlyOnFullSuccess ==
    /\ (ChunkedCall /\ callState = "resolved") =>
           /\ initResp.st = "ok"
           /\ \A c \in Idx : Len(chunkReqs[c]) > 0 => worker[c] = "ok"
           /\ completeResp.st = "ok"
           /\ callValue = completeResp.body
    /\ (\/ initResp.st = "fail"
        \/ (\E c \in Idx : FailedAttempts(c) = 2)
        \/ completeResp.st = "fail") =>
           /\ callState = "rejected"
           /\ callValue \notin Results

\* C9 witness: the call resolved after a chunk needed its retry.
C9_Witness ==
    /\ callState = "resolved"
    /\ \E c \in Idx : Len(chunkReqs[c]) = 2

\* C10: once a chunk has failed twice and the call has rejected, the call
\* sends no further UploadChunk request.
C10_NoRequestAfterAbort ==
    [][(callState = "rejected" /\ \E c \in Idx : worker[c] = "rejected")
           => chunkReqs' = chunkReqs]_vars

\* number of chunks acknowledged in this call
Acks == Cardinality({c \in Idx : worker[c] = "ok"})

\* v is n / t as a percentage rounded to the nearest integer
IsRounded(v, n, t) == 2 * t * v <= 200 * n + t /\ 200 * n + t < 2 * t * (v + 1)

\* the direct request failed: transport error, abort or non-success status
DirectFailed ==
    \/ directResp.st = "fail"
    \/ directResp.st = "load" /\ directResp.status \notin 200..299

\* ----- resubmitting the file after a failed upload -------------------------
\* uploadFile of a file large enough for the chunked path
UploadLarge(size, sink) ==
    /\ size \in ChunkedSizes
    /\ UploadFile(size, sink)

\* the user submits the same file again after the first call rejected:
\* uploadFile runs anew, with fresh locals, up to the await of its
\* InitUpload request; the uploadChunk calls of the first call that are
\* still awaiting a response stay in flight
Resubmit ==
    /\ callNo = 1
    /\ pc = "settled"
    /\ callState = "rejected"
    /\ IsChunked(fileSize)
    /\ callNo' = 2
    /\ prevKnown' = serverStored
    /\ stale' = [c \in Idx |->
           IF worker[c] \in {"try", "retry"} THEN worker[c] ELSE "none"]
    /\ callState' = "pending"
    /\ callValue' = NoValue
    /\ totalChunks' = TotalChunks(fileSize)
    /\ initReqs' = <<Request("init", InitForm(fileSize, TotalChunks(fileSize)), token)>>
    /\ pc' = "init"
    /\ uploadId' = "undefined"
    /\ uploadedChunks' = <<>>
    /\ chunksToUpload' = <<>>
    /\ uploadedCount' = 0
    /\ loopI' = 0
    /\ worker' = [c \in Idx |-> "idle"]
    /\ chunkReqs' = [c \in Idx |-> <<>>]
    /\ completeReqs' = <<>>
    /\ chunkAnswered' = [c \in Idx |-> 0]
    /\ initResp' = NoResp
    /\ completeResp' = NoResp
    /\ progressLog' = <<>>
    /\ UNCHANGED panelVars
    /\ UNCHANGED <<token, fileSize, hasSink, failures, directVars, serverStored,
                   peer>>

\* a request of the first call still in flight is acknowledged: the server
\* stores the chunk; the first call has settled, nothing more happens.
\* These requests are followed until the second InitUpload is answered:
\* after that the second call does not read the server's state again.
StaleOk(c) ==
    /\ pc = "init"
    /\ stale[c] # "none"
    /\ serverStored' = serverStored \cup {c}
    /\ stale' = [stale EXCEPT ![c] = "none"]
    /\ UNCHANGED panelVars
    /\ UNCHANGED <<token, pc, callVars, fileVars, sessionVars, uploadedCount,
                   loopI, worker, initReqs, chunkReqs, completeReqs,
                   chunkAnswered, respVars, progressLog, failures, directVars,
                   callNo, prevKnown, peer>>

\* a request of the first call still in flight fails: a first attempt is
\* retried by the first call's uploadChunk, a retry ends it
StaleFail(c, kind) ==
    /\ pc = "init"
    /\ stale[c] # "none"
    /\ failures < MaxFailures
    /\ failures' = failures + 1
    /\ token' = TokenAfter(kind)
    /\ stale' = [stale EXCEPT ![c] = IF MayRetry(@) THEN "retry" ELSE "none"]
    /\ UNCHANGED panelVars
    /\ UNCHANGED <<pc, callVars, fileVars, sessionVars, uploadedCount, loopI,
                   worker, initReqs, chunkReqs, completeReqs, chunkAnswered,
                   respVars, progressLog, directVars, serverStored, callNo,
                   prevKnown, peer>>

\* InitUpload answered by a server that reports the chunks it holds: for
\* the first call the chunks left by an earlier session, for the second
\* call every chunk it was sent and acknowledged
InitHonest(id) ==
    \E list \in (IF callNo = 1 THEN HonestLists(totalChunks)
                 ELSE {Ascending(serverStored)}) :
        InitOk(id, list)

\* the sink and the upload id have no part in which requests are sent: one
\* value of each is followed
ResumeSinks == {TRUE}
ResumeIds == {"u1"}

NextResume ==
    \/ \E size \in ChunkedSizes, sink \in ResumeSinks : UploadLarge(size, sink)
    \/ \E id \in ResumeIds : InitHonest(id)
    \/ \E kind \in FailKinds : InitFail(kind)
    \/ \E c \in Idx : ChunkOk(c)
    \/ \E c \in Idx, kind \in FailKinds : ChunkFail(c, kind)
    \/ \E res \in Results : CompleteOk(res)
    \/ \E kind \in FailKinds : CompleteFail(kind)
    \/ Resubmit
    \/ \E c \in Idx : StaleOk(c)
    \/ \E c \in Idx, kind \in FailKinds : StaleFail(c, kind)

SpecResume == Init /\ [][NextResume]_vars

\* every chunk of the file
AllChunks == 0..(totalChunks - 1)

\* C11: a failed CompleteUpload rejects the call; when the file is then
\* submitted again and the server reports every chunk as stored, the second
\* call sends no UploadChunk request and sends CompleteUpload as soon as
\* InitUpload is answered.
C11_ResumeAfterCompleteFailure ==
    /\ completeResp.st = "fail" => callState = "rejected"
    /\ (callNo = 2 /\ prevKnown = AllChunks) =>
           /\ \A c \in Idx : chunkReqs[c] = <<>>
           /\ Len(initReqs) = 1
           /\ Len(completeReqs) = (IF initResp.st = "ok" THEN 1 ELSE 0)

\* C11 witness: the second call, made after CompleteUpload failed with
\* every chunk stored, resolved.
C11_Witness ==
    /\ callNo = 2
    /\ prevKnown = AllChunks
    /\ callState = "resolved"
    /\ Len(completeReqs) = 1

\* C12: the second call sends no UploadChunk request for an index that was
\* stored (reported by InitUpload or acknowledged) when the first call
\* failed, wherever the first call failed.
C12_NoRetransmission ==
    callNo = 2 => \A c \in prevKnown : chunkReqs[c] = <<>>

\* C12 witness: the first call failed at a chunk with some chunks stored,
\* and the second call sent a missing chunk.
C12_Witness ==
    /\ callNo = 2
    /\ prevKnown # {}
    /\ prevKnown # AllChunks
    /\ \E c \in AllChunks \ prevKnown : chunkReqs[c] # <<>>

\* the byte range sent for chunk c (its first request)
RangeOf(c) == chunkReqs[c][1].form

\* C13: totalChunks is ceil(size / CHUNK_SIZE); every UploadChunk request
\* for index c carries the bytes [c * CHUNK_SIZE, min((c + 1) * CHUNK_SIZE,
\* size)), a non-empty range; once every chunk was sent the ranges start at
\* 0, each ends where the next begins, the last ends at size, and a size
\* that is a multiple of CHUNK_SIZE has a full last chunk.
C13_ChunkRanges ==
    ChunkedCall =>
        /\ (totalChunks - 1) * CHUNK_SIZE < fileSize
        /\ fileSize <= totalChunks * CHUNK_SIZE
        /\ \A c \in Idx : \A j \in 1..Len(chunkReqs[c]) :
               LET f == chunkReqs[c][j].form
               IN  /\ c < totalChunks
                   /\ f.start = c * CHUNK_SIZE
                   /\ f.end = IF (c + 1) * CHUNK_SIZE < fileSize
                              THEN (c + 1) * CHUNK_SIZE ELSE fileSize
                   /\ f.start < f.end
        /\ completeReqs # <<>> =>
               /\ \A c \in 0..(totalChunks - 1) : Len(chunkReqs[c]) = 1
               /\ RangeOf(0).start = 0
               /\ \A c \in 0..(totalChunks - 2) :
                      RangeOf(c).end = RangeOf(c + 1).start
               /\ RangeOf(totalChunks - 1).end = fileSize
               /\ fileSize % CHUNK_SIZE = 0 =>
                      RangeOf(totalChunks - 1).end
                          - RangeOf(totalChunks - 1).start = CHUNK_SIZE

\* C13 witness: a payload one byte short of a full last chunk was uploaded
\* whole.
C13_Witness ==
    /\ callState = "resolved"
    /\ fileSize % CHUNK_SIZE = CHUNK_SIZE - 1
    /\ \A c \in 0..(totalChunks - 1) : Len(chunkReqs[c]) = 1

\* C14: the mode is chosen from the payload size alone, chunked iff the
\* size exceeds 50 MiB: a chunked call sends InitUpload and never the direct
\* request, a direct call (the threshold size and the empty payload
\* included) sends the single direct request and never InitUpload,
\* UploadChunk or CompleteUpload, in every state of the call.
C14_ModeFromSize ==
    callState # "none" =>
        IF fileSize > 50 * 1024 * 1024
        THEN Len(initReqs) = 1 /\ directReqs = <<>>
        ELSE /\ Len(directReqs) = 1
             /\ directReqs[1].form.file_size = fileSize
             /\ initReqs = <<>>
             /\ completeReqs = <<>>
             /\ \A c \in Idx : chunkReqs[c] = <<>>

\* C14 witness: a payload of exactly the threshold size was uploaded
\* directly.
C14_Witness ==
    /\ fileSize = 50 * 1024 * 1024
    /\ callState = "resolved"
    /\ Len(directReqs) = 1

\* C15: in direct mode at most one request is sent, and once that request
\* has failed the call has rejected without a second request.
C15_DirectNoRetry ==
    /\ Len(directReqs) <= 1
    /\ DirectFailed => callState = "rejected" /\ Len(directReqs) = 1

\* C15 witness: the direct request of a call without a sink failed.
C15_Witness ==
    /\ ~hasSink
    /\ directResp.st = "fail"
    /\ callState = "rejected"

\* C16: when a request is answered with 401 (the step that removes the
\* stored token), the upload call fails with an error of status 401 marked
\* requiresAuth, and the rejected request is not sent again.
C16_AuthFailureSurfaces ==
    [][(token /\ ~token') =>
           /\ callState' = "rejected"
           /\ callValue'.status = 401
           /\ callValue'.requiresAuth
           /\ chunkReqs' = chunkReqs]_vars

\* the phase in which a rejected chunked call failed
FailedPhase ==
    IF initResp.st = "fail" THEN "initiating"
    ELSE IF completeResp.st = "fail" THEN "finalizing"
    ELSE "transferring"

\* C17: the error a chunked call rejects with names the phase that failed
\* and, when a chunk failed twice, the index of that chunk.
C17_ErrorNamesPhase ==
    (ChunkedCall /\ callState = "rejected") =>
        /\ "phase" \in DOMAIN callValue
        /\ callValue.phase = FailedPhase
        /\ FailedPhase = "transferring" =>
               /\ "chunkIndex" \in DOMAIN callValue
               /\ FailedAttempts(callValue.chunkIndex) = 2

C19_ProgressInRange ==
    \A j \in 1..Len(progressLog) : progressLog[j] \in 0..100

\* C20: a chunk acknowledged on its retry is counted exactly once, like one
\* acknowledged at once: the count, and so the value reported at its
\* confirmation, depend on the confirmed chunks only; one failed attempt
\* does not fail the call, and the call resolves with the CompleteUpload
\* response.
C20_RetryCountsOnce ==
    ChunkedCall =>
        /\ uploadedCount = Len(uploadedChunks) + Acks
        /\ (hasSink /\ Acks >= 1 /\ completeResp.st # "ok") =>
               IsRounded(progressLog[Len(progressLog)], Len(uploadedChunks) + Acks,
                         totalChunks)
        /\ callState = "rejected" =>
               \/ initResp.st = "fail"
               \/ completeResp.st = "fail"
               \/ \E c \in Idx : FailedAttempts(c) = 2
        /\ callState = "resolved" => callValue = completeResp.body

\* C20 witness: the call resolved, a chunk having been acknowledged on its
\* retry.
C20_Witness ==
    /\ callState = "resolved"
    /\ hasSink
    /\ \E c \in Idx : worker[c] = "ok" /\ FailedAttempts(c) = 1

\* an UploadChunk request was sent for index c
Dispatched(c) == chunkReqs[c] # <<>>

\* no UploadChunk and no CompleteUpload request was sent, nothing reported
NothingSent ==
    /\ \A c \in Idx : chunkReqs[c] = <<>>
    /\ completeReqs = <<>>
    /\ progressLog = <<>>

\* a list that names an index outside 0..total-1 or names an index twice
Inconsistent(list, total) ==
    \/ \E j \in 1..Len(list) : list[j] \notin 0..(total - 1)
    \/ \E j, k \in 1..Len(list) : j # k /\ list[j] = list[k]

\* C22: when InitUpload has failed the call has rejected with the error of
\* that failure, one InitUpload request was sent, no UploadChunk and no
\* CompleteUpload request was sent and no progress value was reported.
C22_InitFailureRejects ==
    initResp.st = "fail" =>
        /\ callState = "rejected"
        /\ callValue.origin = <<"init", 0, 1>>
        /\ callValue.status = (IF initResp.kind = "401" THEN 401
                               ELSE IF initResp.kind = "500" THEN 500 ELSE 0)
        /\ callValue.requiresAuth = (initResp.kind = "401")
        /\ Len(initReqs) = 1
        /\ NothingSent

\* C22 witness: InitUpload was answered with status 500.
C22_Witness ==
    /\ initResp.st = "fail"
    /\ initResp.kind = "500"
    /\ callState = "rejected"

\* C23: while the call is running and a chunk to upload has not been
\* dispatched, 3 UploadChunk requests are outstanding (a chunk waits for
\* the cap only).
C23_WorkConserving ==
    (ChunkedCall /\ callState = "pending" /\ initResp.st = "ok"
        /\ \E j \in 1..Len(chunksToUpload) : ~Dispatched(chunksToUpload[j]))
    => OutstandingChunks >= 3

\* C26: when InitUpload answered with a list inconsistent with totalChunks
\* the call has rejected, no UploadChunk and no CompleteUpload request was
\* sent and no progress value was reported.
C26_InconsistentListRejected ==
    (initResp.st = "ok"
        /\ Inconsistent(initResp.body.uploaded_chunks, totalChunks))
    => callState = "rejected" /\ NothingSent

\* C28: the chunks to upload are in ascending order and are dispatched in
\* that order, in batches of 3 (the last one may be smaller): a chunk is
\* dispatched only when every chunk before it in the list is, and only when
\* every chunk of the batches before its own has been acknowledged.
C28_BatchBarrier ==
    (ChunkedCall /\ initResp.st = "ok") =>
        LET list == chunksToUpload
            n == Cardinality({j \in 1..Len(list) : Dispatched(list[j])})
        IN  /\ \A j, k \in 1..Len(list) : j < k => list[j] < list[k]
            /\ \A c \in Idx : Dispatched(c) => \E j \in 1..Len(list) : list[j] = c
            /\ \A j, k \in 1..Len(list) :
                   (j < k /\ Dispatched(list[k])) =>
                       /\ Dispatched(list[j])
                       /\ (j - 1) \div 3 < (k - 1) \div 3 => worker[list[j]] = "ok"
            /\ n % 3 = 0 \/ n = Len(list)

\* C28 witness: one request is outstanding and the next batch waits for it.
C28_Witness ==
    /\ callState = "pending"
    /\ OutstandingChunks = 1
    /\ \E j \in 1..Len(chunksToUpload) : ~Dispatched(chunksToUpload[j])
    /\ \E c \in Idx : worker[c] = "retry"

\* C29: once a chunked call has rejected no value is passed to its progress
\* sink any more.
C29_NoProgressAfterReject ==
    [][(ChunkedCall /\ callState = "rejected") => progressLog' = progressLog]_vars

\* the transitions of one chunk: dispatched, acknowledged, retried after
\* its first failure, failed after its second
LifecycleStep(a, b) ==
    \/ a = b
    \/ a = "idle" /\ b = "try"
    \/ a = "try" /\ b \in {"ok", "retry"}
    \/ a = "retry" /\ b \in {"ok", "rejected"}

\* C24: a chunk reported as stored is never dispatched; every other chunk
\* goes from pending to in flight, from there to confirmed or, after one
\* failure, to its retry, and from the retry to confirmed or failed;
\* confirmed and failed are final, and a failed chunk has exactly two
\* failed attempts.
C24_ChunkLifecycle ==
    /\ [](\A c \in Idx :
             /\ c \in AlreadyStored => worker[c] = "idle"
             /\ worker[c] = "rejected" => FailedAttempts(c) = 2
             /\ worker[c] = "retry" => FailedAttempts(c) = 1
             /\ worker[c] = "try" => FailedAttempts(c) = 0)
    /\ [][\A c \in Idx : LifecycleStep(worker[c], worker'[c])]_vars

\* C24 witness: one chunk failed after two attempts, another was confirmed
\* on its retry, and some chunks were stored from the start.
C24_Witness ==
    /\ AlreadyStored # {}
    /\ \E c \in Idx : worker[c] = "rejected" /\ FailedAttempts(c) = 2
    /\ \E c \in Idx : worker[c] = "ok" /\ FailedAttempts(c) = 1

\* a direct upload call with a progress sink has been made
DirectSinkCall == callState # "none" /\ ~ChunkedCall /\ hasSink

\* C27: in direct mode with a sink every reported value is the rounded
\* percentage of the bytes sent, the values never decrease, and when the
\* call has resolved the last value reported is 100.
C27_DirectProgressEndsAt100 ==
    DirectSinkCall =>
        /\ \A j \in 1..Len(progressLog) : progressLog[j] \in 0..100
        /\ \A j, k \in 1..Len(progressLog) :
               j < k => progressLog[j] <= progressLog[k]
        /\ progressLog # <<>> =>
               progressLog[Len(progressLog)]
                   = XhrPercent(xhrLoaded, XhrTotal(fileSize))
        /\ callState = "resolved" =>
               /\ progressLog # <<>>
               /\ progressLog[Len(progressLog)] = 100

\* the call resolved with the CompleteUpload result after one UploadChunk
\* request for each index the server had not reported, and the last value
\* given to the sink is 100
ResolvedInFull ==
    /\ callState = "resolved"
    /\ completeResp.st = "ok"
    /\ callValue = completeResp.body
    /\ \A c \in Chunks :
           Len(chunkReqs[c]) = (IF c \in AlreadyStored THEN 0 ELSE 1)
    /\ hasSink => /\ progressLog # <<>>
                  /\ progressLog[Len(progressLog)] = 100

\* C21: when no request fails and every request is answered, a chunked call
\* that was made eventually has resolved with the CompleteUpload result,
\* having sent exactly one UploadChunk request per index not already
\* stored, with 100 as the last value reported.
C21_EventuallyResolves ==
    (callState = "pending") ~> ResolvedInFull

\* C21 witness: a call with a sink resolved after uploading the chunks the
\* server did not hold.
C21_Witness ==
    /\ ResolvedInFull
    /\ hasSink
    /\ AlreadyStored # {}
    /\ \E c \in Chunks : Len(chunkReqs[c]) = 1

\* C30: when every request is answered, a call that was made eventually
\* has resolved or rejected; and it never sends more than one InitUpload,
\* two UploadChunk requests per chunk, one CompleteUpload and one direct
\* request.
C30_Terminates ==
    /\ (callState = "pending") ~> (callState \in {"resolved", "rejected"})
    /\ [](/\ Len(initReqs) <= 1
          /\ Len(completeReqs) <= 1
          /\ Len(directReqs) <= 1
          /\ \A c \in Idx : Len(chunkReqs[c]) <= 2)

\* C30 witness: a call rejected after a chunk was sent twice and failed
\* twice.
C30_Witness ==
    /\ callState = "rejected"
    /\ \E c \in Idx : Len(chunkReqs[c]) = 2 /\ worker[c] = "rejected"
    /\ OutstandingChunks = 0

\* number of chunks acknowledged in the second call
PeerAcks == Cardinality({c \in Idx : peer.worker[c] = "ok"})

\* a chunk of the first call, of the second call, failed in this step
ChunkFailedHere == \E c \in Idx : chunkAnswered'[c] > chunkAnswered[c]
                                  /\ worker'[c] \in {"retry", "rejected"}
PeerChunkFailedHere == \E c \in Idx : peer'.worker[c] # peer.worker[c]
                                      /\ peer'.worker[c] \in {"retry", "rejected"}

Unauthorized ==
    \/ InitFail("401")
    \/ \E c \in Idx : ChunkFail(c, "401")
    \/ CompleteFail("401")
    \/ \E body \in Bodies : XhrLoad(401, body)
    \/ FetchFail("401")

\* the requests of one kind sent in a step: the entries appended to the log
SentIn(old, new) == {new[j] : j \in (Len(old) + 1)..Len(new)}

\* no request already sent is changed by a step
Kept(old, new) == Len(old) <= Len(new) /\ \A j \in 1..Len(old) : new[j] = old[j]

\* every request sent in the step
SentNow ==
    SentIn(initReqs, initReqs') \cup SentIn(completeReqs, completeReqs')
        \cup SentIn(directReqs, directReqs')
        \cup UNION {SentIn(chunkReqs[c], chunkReqs'[c]) : c \in Idx}

\* C31: a 401 answer to any request removes the stored access token; while
\* no token is stored every request sent (the retry of the chunk that got
\* the 401, the chunks of later batches, CompleteUpload) carries no
\* Authorization header, nothing in the upload code stores a token again,
\* and the requests sent before are left as they were sent.
C31_TokenRemovedOn401 ==
    [][/\ Unauthorized => ~token'
       /\ ~token => ~token'
       /\ \A r \in SentNow : r.auth = token'
       /\ Kept(initReqs, initReqs') /\ Kept(completeReqs, completeReqs')
       /\ Kept(directReqs, directReqs')
       /\ \A c \in Idx : Kept(chunkReqs[c], chunkReqs'[c])]_vars

\* C31 witness: a chunk sent with the header got a 401 and was retried
\* without it, a chunk of a later batch and CompleteUpload went without it.
C31_Witness ==
    /\ ~token
    /\ Len(initReqs) = 1
    /\ initReqs[1].auth
    /\ \E c \in Idx : /\ Len(chunkReqs[c]) = 2
                      /\ chunkReqs[c][1].auth
                      /\ ~chunkReqs[c][2].auth
    /\ \E c \in Idx : Len(chunkReqs[c]) = 1 /\ ~chunkReqs[c][1].auth
    /\ Len(completeReqs) = 1
    /\ ~completeReqs[1].auth

\* ----- the direct upload with and without a sink ---------------------------
\* what request() makes of an answered request: it returns the parsed body
\* when response.ok and the body parses, and throws otherwise
RequestResolves(status, body) == status \in 200..299 /\ body \in Results

\* the call took the direct path and its request was answered
DirectAnswered == callState # "none" /\ ~ChunkedCall /\ directResp.st = "load"

\* C32: the outcome of a direct upload does not depend on the sink: for
\* every answer of the server (status and body) the call with a sink
\* resolves exactly when the call without one, which goes through
\* request(), resolves.
C32_SinkIndependent ==
    DirectAnswered =>
        (callState = "resolved"
            <=> RequestResolves(directResp.status, directResp.body))

\* ----- the error of a chunk that failed twice ------------------------------
\* the step is the answer, a failure of the given kind, to the first
\* attempt of chunk c
FirstAttemptFails(c, kind) == worker[c] = "try" /\ ChunkFailure(c, kind)

\* the step is the answer, a failure of the given kind, to the retry of c
RetryFails(c, kind) == worker[c] = "retry" /\ ChunkFailure(c, kind)

\* C33: when a chunk fails twice the error the call rejects with is the one
\* of the retry; the error of the first attempt is only logged and never
\* reaches the caller; when several chunks of a batch fail twice the caller
\* gets exactly one error, that of the chunk whose retry failed first.
C33_RetryErrorReachesCaller ==
    [][\A c \in Idx, kind \in FailKinds :
           /\ FirstAttemptFails(c, kind) => UNCHANGED <<callState, callValue>>
           /\ (RetryFails(c, kind) /\ callState = "pending") =>
                  /\ callState' = "rejected"
                  /\ callValue' = MakeError(kind, <<"chunk", c, 2>>)
           /\ (RetryFails(c, kind) /\ callState # "pending") =>
                  UNCHANGED <<callState, callValue>>]_vars

\* C33 witness: two chunks of one batch failed twice each, and the call is
\* rejected with the error of the retry of one of them.
C33_Witness ==
    /\ callState = "rejected"
    /\ \E c, d \in Idx :
           /\ c # d
           /\ worker[c] = "rejected" /\ worker[d] = "rejected"
           /\ {c, d} \subseteq Batch(chunksToUpload, loopI)
           /\ callValue.origin = <<"chunk", c, 2>>

\* ----- the chat panel ------------------------------------------------------
\* the extension of a file name: what follows its last dot, compared
\* without regard to case; a name without a dot has none
Extension(name) ==
    IF Len(name) >= 2 THEN "." \o ToLowerCase(name[Len(name)]) ELSE ""

\* the file is one the panel is to upload
Accepted(name, size) == Extension(name) \in allowedExtensions /\ size <= maxSize

\* C34: handleFileSelect sends no request for a file whose extension is not
\* in the list or whose size exceeds 200 MiB, and sets an error status; for
\* every other file it calls uploadFile exactly once, and the label of the
\* status it shows is "chunked" exactly when the engine takes the chunked
\* path.
C34_SelectionChecked ==
    [][\A name \in FileNames, size \in PanelSizes :
           HandleFileSelect(name, size) =>
               IF Accepted(name, size)
               THEN /\ callNo' = callNo + 1
                    /\ Cardinality(SentNow) = 1
                    /\ uploadStatus'.type = "uploading"
                    /\ uploadStatus'.message = (pc' = "init")
                    /\ uploadStatus'.message = IsChunked(size)
               ELSE /\ SentNow = {}
                    /\ UNCHANGED engineVars
                    /\ uploadStatus'.type = "error"]_vars

\* C35: when the call started by handleFileSelect settles, the status
\* becomes 'success' exactly when the call resolved and 'error', with the
\* error of the call as its message, exactly when it rejected; in both cases
\* the file input is reset, and nothing runs between the settling and this.
C35_StatusFollowsOutcome ==
    /\ [][(handler = "awaiting" /\ callState \in {"resolved", "rejected"}) =>
              /\ handler' = "done"
              /\ uploadStatus'.type = "success" <=> callState = "resolved"
              /\ uploadStatus'.type = "error" <=> callState = "rejected"
              /\ callState = "rejected" => uploadStatus'.message = callValue
              /\ fileInput' = ""]_vars
    /\ [](uploadStatus.type = "success" => callState = "resolved")

\* C35 witness: a chunked upload started by the panel was rejected at a
\* chunk; the status is the error of the call and the input is reset.
C35_Witness ==
    /\ handler = "done"
    /\ ChunkedCall
    /\ callState = "rejected"
    /\ callValue.origin[1] = "chunk"
    /\ uploadStatus.type = "error"
    /\ uploadStatus.message = callValue
    /\ fileInput = ""

\* the value the progress callback was last given, 0 before the first
LatestProgress ==
    IF progressLog = <<>> THEN 0 ELSE progressLog[Len(progressLog)]

\* C36: while an upload started by handleFileSelect is in progress the
\* status is of type 'uploading' and holds the latest progress reported: no
\* pending timeout and no other selection nulls or replaces it.
C36_StatusHeldWhileUploading ==
    (handler = "awaiting" /\ callState = "pending") =>
        /\ uploadStatus.type = "uploading"
        /\ StatusProgress = LatestProgress

====
